---- MODULE Spec2Model ----
(***************************************************************************)
(* Model of src/backend/patterns/debate_ai_foundry.py: DebateOrchestrator. *)
(*                                                                         *)
(* One call of process_conversation is a session.  The session drives a   *)
(* semantic_kernel AgentGroupChat (Writer and Critic), whose invoke() loop *)
(* is                                                                      *)
(*     for _ in range(termination_strategy.maximum_iterations):            *)
(*         selected = await selection_strategy.next(agents, history)       *)
(*         async for message in invoke_agent(selected):   (appends)        *)
(*             if message.role == ASSISTANT:                               *)
(*                 is_complete = await termination.should_terminate(...)   *)
(*             yield message                                               *)
(*         if is_complete: break                                           *)
(* and whose TerminationStrategy.should_terminate returns False for an     *)
(* agent outside strategy.agents and should_agent_terminate otherwise.     *)
(* Every await of a model call either returns a value or raises.           *)
(***************************************************************************)
EXTENDS Integers, Sequences, FiniteSets, TLC

VARIABLES pc, conversation_messages, chat_history, history, loop_index,
          is_complete, iteration, output, agent_name, res_val,
          should_terminate, messages, events, error,
          now, user_id, session_id

vars == <<pc, conversation_messages, chat_history, history, loop_index,
          is_complete, iteration, output, agent_name, res_val,
          should_terminate, messages, events, error,
          now, user_id, session_id>>

(* ---------------------------- bounds ----------------------------------- *)
\* longest conversation_messages argument explored
MaxSeed == 2

\* the clock is followed up to this instant
MaxTick == 2

\* instants of the clock in one second, the resolution of %S at line 169
TicksPerSecond == 2

\* the callers (user_id)
Users == {"u1", "u2"}

\* the calls of process_conversation that may exist
Sessions == {"s1", "s2"}

(* --------------------------- constants --------------------------------- *)
maximum_iterations == 6
PassingScore == 8

NoneValue == "<None>"
WriterName == "Writer"
CriticName == "Critic"

\* agents=[writer, critic]
agents == <<WriterName, CriticName>>
\* create_selection_strategy(agents, critic)
default_agent == CriticName
\* the strategy created with agents=agents
termination_agents_all == {WriterName, CriticName}

\* create_termination_strategy(agents=[critic], ...)
termination_agents == {CriticName}

Range(f) == {f[x] : x \in DOMAIN f}

RECURSIVE Reverse(_)
Reverse(s) == IF s = <<>> THEN <<>> ELSE Reverse(Tail(s)) \o <<Head(s)>>

(* ------------------------- the input entries --------------------------- *)
\* one dictionary of conversation_messages: role, name, content
Entry(r, n, c) == [role |-> r, name |-> n, content |-> c]

EntryKinds == { <<"user", NoneValue>>, <<"assistant", WriterName>>,
                <<"system", NoneValue>>, <<"system", WriterName>> }

\* the conversation_messages arguments: entry k has content <<"in", k>>
Conversations ==
    UNION { { [k \in 1..n |-> Entry(f[k][1], f[k][2], <<"in", k>>)] :
              f \in [1..n -> EntryKinds] } : n \in 0..MaxSeed }

(* ------------------- str(res_val) and Python's float() ----------------- *)
\* A string is the sequence of its characters.
Digits == {"0", "1", "2", "3", "4", "5", "6", "7", "8", "9"}

DigitValue(c) ==
    CASE c = "0" -> 0 [] c = "1" -> 1 [] c = "2" -> 2 [] c = "3" -> 3
      [] c = "4" -> 4 [] c = "5" -> 5 [] c = "6" -> 6 [] c = "7" -> 7
      [] c = "8" -> 8 [] c = "9" -> 9

RECURSIVE StripLeft(_)
StripLeft(s) ==
    IF s # <<>> /\ Head(s) = " " THEN StripLeft(Tail(s)) ELSE s

\* str.strip(): float() ignores leading and trailing whitespace
Strip(s) == Reverse(StripLeft(Reverse(StripLeft(s))))

RECURSIVE DigitsToNat(_, _)
\* the value of a digit string, read left to right
DigitsToNat(s, acc) ==
    IF s = <<>> THEN acc
    ELSE DigitsToNat(Tail(s), 10 * acc + DigitValue(Head(s)))

RECURSIVE Pow10(_)
Pow10(n) == IF n = 0 THEN 1 ELSE 10 * Pow10(n - 1)

IsDigit(c) == c \in Digits
IsDot(c) == c = "."
IsDigitOrDot(c) == c \in Digits \cup {"."}

\* position of the first "." of s, or Len(s) + 1 when there is none
DotIndex(s) ==
    IF \E k \in 1..Len(s) : s[k] = "."
    THEN CHOOSE k \in 1..Len(s) :
             s[k] = "." /\ \A j \in 1..(k - 1) : s[j] # "."
    ELSE Len(s) + 1

ValueError == [ok |-> FALSE, kind |-> "error", neg |-> FALSE, num |-> 0, den |-> 1]

\* float() of an unsigned body: inf, nan, or a decimal literal
\* digits [. [digits]] | . digits   (exponents and "_" separators are not
\* among the outputs explored).  A finite value is the fraction num / den.
ParseUnsigned(b, negative) ==
    IF b = <<"i", "n", "f">>
    THEN [ok |-> TRUE, kind |-> "inf", neg |-> negative, num |-> 0, den |-> 1]
    ELSE IF b = <<"n", "a", "n">>
    THEN [ok |-> TRUE, kind |-> "nan", neg |-> negative, num |-> 0, den |-> 1]
    ELSE IF /\ b # <<>>
            /\ \A k \in 1..Len(b) : IsDigitOrDot(b[k])
            /\ Len(SelectSeq(b, IsDot)) <= 1
            /\ Len(SelectSeq(b, IsDigit)) >= 1
    THEN [ok |-> TRUE, kind |-> "finite", neg |-> negative,
          num |-> DigitsToNat(SelectSeq(b, IsDigit), 0),
          den |-> Pow10(Len(b) - DotIndex(b) + (IF DotIndex(b) > Len(b) THEN 1 ELSE 0))]
    ELSE ValueError

\* float(str): strip, optional sign, body
ParseFloat(str) ==
    LET t == Strip(str) IN
    IF t # <<>> /\ Head(t) \in {"-", "+"}
    THEN ParseUnsigned(Tail(t), Head(t) = "-")
    ELSE ParseUnsigned(t, FALSE)

\* the gate written with > as in the docstring of should_agent_terminate
ScoreGateStrict(p) ==
    CASE p.kind = "nan" -> FALSE
      [] p.kind = "inf" -> ~p.neg
      [] p.kind = "finite" -> IF p.neg THEN FALSE
                              ELSE p.num > PassingScore * p.den
      [] OTHER -> FALSE

\* float(str(res_val)) >= 8.0 on a parsed value
ScoreGate(p) ==
    CASE p.kind = "nan" -> FALSE
      [] p.kind = "inf" -> ~p.neg
      [] p.kind = "finite" -> IF p.neg THEN FALSE
                              ELSE p.num >= PassingScore * p.den
      [] OTHER -> FALSE

\* the except branch stopping the debate instead of continuing it
ShouldTerminateValueStopOnError(str) ==
    IF ParseFloat(str).ok THEN ScoreGate(ParseFloat(str)) ELSE TRUE

\* lines 295-300: try: float(str(res_val)) >= 8.0  except ValueError: False
ShouldTerminateValue(str) ==
    IF ParseFloat(str).ok THEN ScoreGate(ParseFloat(str)) ELSE FALSE

\* str(res_val) for the values the extraction call is made to return
ExtractionOutputs ==
    { <<"8">>, <<"8", ".", "0">>, <<"7", ".", "9">>, <<"7">>, <<"9">>,
      <<"1", "0">>, <<".", "8">>, <<" ", "9", " ">>,
      <<"-", "9">>, <<"7", ".", "9", "9">>,
      <<"i", "n", "f">>, <<"n", "a", "n">>,
      <<>>, <<"8", "/", "1", "0">>, <<"N", "o", "n", "e">>,
      <<"n", "o", " ", "s", "c", "o", "r", "e">> }

(* ----------------------- turns and the roster --------------------------- *)
\* the filter of line 161 letting every role through
IsAnyRole(m) == m.role \in {"assistant", "user", "system"}

IsUserOrAssistant(m) == m.role \in {"assistant", "user"}

\* lines 156-162: the entries with role assistant or user, as messages
ChatHistoryOf(msgs) == SelectSeq(msgs, IsUserOrAssistant)

RosterNames == Range(agents)

\* a function result whose value is None
NoOutput == [is_none |-> TRUE, value |-> <<>>]

\* what the SpeakerSelector function can return: no value, or one message
\* whose content is a roster name, an unknown name or the empty string
SelectorOutputs ==
    { NoOutput } \cup
    { [is_none |-> FALSE, value |-> <<c>>] :
        c \in {WriterName, CriticName, "Editor", ""} }

\* lines 235-239
parse_selection_output(out) ==
    IF ~out.is_none THEN out.value[1] ELSE default_agent

\* KernelFunctionSelectionStrategy.select_agent after the parser: a falsy
\* name or a name of no agent raises
SelectionResolves(name) == name # "" /\ name \in RosterNames

\* AgentChat.get_chat_messages(): the history, most recent first
get_chat_messages(h) == Reverse(h)

IsWriter(r) == r.name = WriterName

\* line 184 without reversed(): the list stays most recent first
ResponseNotReversed(h) == get_chat_messages(h)

\* line 184
ResponseOf(h) == Reverse(get_chat_messages(h))

\* line 187: the Writer entries of response
WriterReplies(h) == SelectSeq(ResponseOf(h), IsWriter)

\* line 187: [...][-1]
LastWriterReply(h) == WriterReplies(h)[Len(WriterReplies(h))]

NoTurn == Entry("none", NoneValue, <<"none", 0>>)
StatusEvent(n) == [kind |-> "status", n |-> n, turn |-> NoTurn]
ResultEvent(t) == [kind |-> "json", n |-> 0, turn |-> t]

\* line 169: strftime("%Y-%m-%d_%H:%M:%S") keeps the whole seconds of now
strftime(t) == t \div TicksPerSecond

\* line 170: f"{user_id}-{current_time}"
SessionIdOf(user, t) == <<user, strftime(t)>>

(* ------------------------------ Init ----------------------------------- *)
Init ==
    /\ pc = [s \in Sessions |-> "idle"]
    /\ conversation_messages = [s \in Sessions |-> <<>>]
    /\ chat_history = [s \in Sessions |-> <<>>]
    /\ history = [s \in Sessions |-> <<>>]
    /\ loop_index = [s \in Sessions |-> 0]
    /\ is_complete = [s \in Sessions |-> FALSE]
    /\ iteration = [s \in Sessions |-> 0]
    /\ output = [s \in Sessions |-> NoOutput]
    /\ agent_name = [s \in Sessions |-> NoneValue]
    /\ res_val = [s \in Sessions |-> <<>>]
    /\ should_terminate = [s \in Sessions |-> FALSE]
    /\ messages = [s \in Sessions |-> <<>>]
    /\ events = [s \in Sessions |-> <<>>]
    /\ error = [s \in Sessions |-> "none"]
    /\ now = 0
    /\ user_id = [s \in Sessions |-> NoneValue]
    /\ session_id = [s \in Sessions |-> <<NoneValue, 0>>]

(* ----------------------------- actions --------------------------------- *)
\* the run without the status of line 175
process_conversation_no_first_status(s, user, msgs) ==
    /\ pc[s] = "idle"
    /\ user_id' = [user_id EXCEPT ![s] = user]
    /\ session_id' = [session_id EXCEPT ![s] = SessionIdOf(user, now)]
    /\ now' = now
    /\ conversation_messages' = [conversation_messages EXCEPT ![s] = msgs]
    /\ chat_history' = [chat_history EXCEPT ![s] = ChatHistoryOf(msgs)]
    /\ history' = [history EXCEPT ![s] = ChatHistoryOf(msgs)]
    /\ iteration' = [iteration EXCEPT ![s] = 0]
    /\ is_complete' = [is_complete EXCEPT ![s] = FALSE]
    /\ loop_index' = [loop_index EXCEPT ![s] = 0]
    /\ messages' = [messages EXCEPT ![s] = <<>>]
    /\ events' = [events EXCEPT ![s] = <<>>]
    /\ pc' = [pc EXCEPT ![s] = IF 0 < maximum_iterations THEN "select" ELSE "result"]
    /\ UNCHANGED <<output, agent_name, res_val, should_terminate, error>>

\* lines 153-175: a new group chat (empty history, is_complete False, a
\* new CompletionTerminationStrategy with iteration 0), the seeded history,
\* the session id of the tracing span, the first status, then the first
\* pass of invoke()'s for loop
process_conversation(s, user, msgs) ==
    /\ pc[s] = "idle"
    /\ user_id' = [user_id EXCEPT ![s] = user]
    /\ session_id' = [session_id EXCEPT ![s] = SessionIdOf(user, now)]
    /\ now' = now
    /\ conversation_messages' = [conversation_messages EXCEPT ![s] = msgs]
    /\ chat_history' = [chat_history EXCEPT ![s] = ChatHistoryOf(msgs)]
    /\ history' = [history EXCEPT ![s] = ChatHistoryOf(msgs)]
    /\ iteration' = [iteration EXCEPT ![s] = 0]
    /\ is_complete' = [is_complete EXCEPT ![s] = FALSE]
    /\ loop_index' = [loop_index EXCEPT ![s] = 0]
    /\ messages' = [messages EXCEPT ![s] = <<>>]
    /\ events' = [events EXCEPT ![s] = <<StatusEvent(0)>>]
    /\ pc' = [pc EXCEPT ![s] = IF 0 < maximum_iterations THEN "select" ELSE "result"]
    /\ UNCHANGED <<output, agent_name, res_val, should_terminate, error>>

\* the SpeakerSelector model call returns
SelectionReturns(s, out) ==
    /\ pc[s] = "select"
    /\ output' = [output EXCEPT ![s] = out]
    /\ pc' = [pc EXCEPT ![s] = "parse"]
    /\ UNCHANGED <<now, user_id, session_id>>
    /\ UNCHANGED <<conversation_messages, chat_history, history, loop_index,
                   is_complete, iteration, agent_name, res_val,
                   should_terminate, messages, events, error>>

\* lines 235-239, called as result_parser
ParseSelection(s) ==
    /\ pc[s] = "parse"
    /\ agent_name' = [agent_name EXCEPT ![s] = parse_selection_output(output[s])]
    /\ pc' = [pc EXCEPT ![s] = "resolve"]
    /\ UNCHANGED <<now, user_id, session_id>>
    /\ UNCHANGED <<conversation_messages, chat_history, history, loop_index,
                   is_complete, iteration, output, res_val,
                   should_terminate, messages, events, error>>

\* select_agent looks the name up in the roster; a falsy name or no agent
\* of that name raises AgentExecutionException, which invoke() re-raises
\* as AgentChatException to the caller of process_conversation
ResolveAgent(s) ==
    /\ pc[s] = "resolve"
    /\ IF SelectionResolves(agent_name[s])
       THEN /\ pc' = [pc EXCEPT ![s] = "produce"]
            /\ error' = error
       ELSE /\ pc' = [pc EXCEPT ![s] = "failed"]
            /\ error' = [error EXCEPT ![s] = "SelectionParseFailure"]
    /\ UNCHANGED <<now, user_id, session_id>>
    /\ UNCHANGED <<conversation_messages, chat_history, history, loop_index,
                   is_complete, iteration, output, agent_name, res_val,
                   should_terminate, messages, events>>

\* invoke_agent: the selected agent's message is appended to the history
ProduceTurn(s) ==
    /\ pc[s] = "produce"
    /\ history' = [history EXCEPT ![s] =
           Append(@, Entry("assistant", agent_name[s], <<"turn", loop_index[s] + 1>>))]
    /\ pc' = [pc EXCEPT ![s] = "should_terminate"]
    /\ UNCHANGED <<now, user_id, session_id>>
    /\ UNCHANGED <<conversation_messages, chat_history, loop_index,
                   is_complete, iteration, output, agent_name, res_val,
                   should_terminate, messages, events, error>>

\* should_agent_terminate without line 286
ShouldTerminateNoIncrement(s) ==
    /\ pc[s] = "should_terminate"
    /\ IF agent_name[s] \in termination_agents
       THEN /\ pc' = [pc EXCEPT ![s] = "extract"]
            /\ is_complete' = is_complete
       ELSE /\ is_complete' = [is_complete EXCEPT ![s] = FALSE]
            /\ pc' = [pc EXCEPT ![s] = "consume"]
    /\ iteration' = iteration
    /\ UNCHANGED <<now, user_id, session_id>>
    /\ UNCHANGED <<conversation_messages, chat_history, history, loop_index,
                   output, agent_name, res_val, should_terminate, messages,
                   events, error>>

\* iteration as a ClassVar, one counter for every strategy instance
ShouldTerminateSharedCounter(s) ==
    /\ pc[s] = "should_terminate"
    /\ IF agent_name[s] \in termination_agents
       THEN /\ iteration' = [t \in Sessions |-> iteration[t] + 1]
            /\ pc' = [pc EXCEPT ![s] = "extract"]
            /\ is_complete' = is_complete
       ELSE /\ is_complete' = [is_complete EXCEPT ![s] = FALSE]
            /\ pc' = [pc EXCEPT ![s] = "consume"]
            /\ iteration' = iteration
    /\ UNCHANGED <<now, user_id, session_id>>
    /\ UNCHANGED <<conversation_messages, chat_history, history, loop_index,
                   output, agent_name, res_val, should_terminate, messages,
                   events, error>>

\* TerminationStrategy.should_terminate: an agent outside agents=[critic]
\* is out of scope (False); otherwise should_agent_terminate starts:
\* line 286, then the extraction call of line 292 is awaited
ShouldTerminate(s) ==
    /\ pc[s] = "should_terminate"
    /\ IF agent_name[s] \in termination_agents
       THEN /\ iteration' = [iteration EXCEPT ![s] = @ + 1]
            /\ pc' = [pc EXCEPT ![s] = "extract"]
            /\ is_complete' = is_complete
       ELSE /\ is_complete' = [is_complete EXCEPT ![s] = FALSE]
            /\ pc' = [pc EXCEPT ![s] = "consume"]
            /\ iteration' = iteration
    /\ UNCHANGED <<now, user_id, session_id>>
    /\ UNCHANGED <<conversation_messages, chat_history, history, loop_index,
                   output, agent_name, res_val, should_terminate, messages,
                   events, error>>

\* line 292: the TerminationEvaluator call returns res_val
ExtractionReturns(s, r) ==
    /\ pc[s] = "extract"
    /\ res_val' = [res_val EXCEPT ![s] = r]
    /\ pc' = [pc EXCEPT ![s] = "gate"]
    /\ UNCHANGED <<now, user_id, session_id>>
    /\ UNCHANGED <<conversation_messages, chat_history, history, loop_index,
                   is_complete, iteration, output, agent_name,
                   should_terminate, messages, events, error>>

\* lines 295-300
EvaluateScore(s) ==
    /\ pc[s] = "gate"
    /\ should_terminate' = [should_terminate EXCEPT ![s] = ShouldTerminateValue(res_val[s])]
    /\ pc' = [pc EXCEPT ![s] = "return"]
    /\ UNCHANGED <<now, user_id, session_id>>
    /\ UNCHANGED <<conversation_messages, chat_history, history, loop_index,
                   is_complete, iteration, output, agent_name, res_val,
                   messages, events, error>>

\* line 303, and invoke()'s  self.is_complete = await task
ReturnShouldTerminate(s) ==
    /\ pc[s] = "return"
    /\ is_complete' = [is_complete EXCEPT ![s] = should_terminate[s]]
    /\ res_val' = [res_val EXCEPT ![s] = <<>>]
    /\ should_terminate' = [should_terminate EXCEPT ![s] = FALSE]
    /\ pc' = [pc EXCEPT ![s] = "consume"]
    /\ UNCHANGED <<now, user_id, session_id>>
    /\ UNCHANGED <<conversation_messages, chat_history, history, loop_index,
                   iteration, output, agent_name, messages, events, error>>

\* the status yielded in the JSON framing of the final response
EmitStatusAsJson(s) ==
    /\ pc[s] = "consume"
    /\ messages' = [messages EXCEPT ![s] = Append(@, history[s][Len(history[s])])]
    /\ events' = [events EXCEPT ![s] = Append(@, ResultEvent(history[s][Len(history[s])]))]
    /\ pc' = [pc EXCEPT ![s] = "loop_next"]
    /\ UNCHANGED <<now, user_id, session_id>>
    /\ UNCHANGED <<conversation_messages, chat_history, history, loop_index,
                   is_complete, iteration, output, agent_name, res_val,
                   should_terminate, error>>

\* the status text added to the chat as a message of its own
EmitStatusIntoHistory(s) ==
    /\ pc[s] = "consume"
    /\ messages' = [messages EXCEPT ![s] = Append(@, history[s][Len(history[s])])]
    /\ history' = [history EXCEPT ![s] =
           Append(@, Entry("assistant", NoneValue, <<"status", Len(messages[s]) + 1>>))]
    /\ events' = [events EXCEPT ![s] = Append(@, StatusEvent(Len(messages[s]) + 1))]
    /\ pc' = [pc EXCEPT ![s] = "loop_next"]
    /\ UNCHANGED <<now, user_id, session_id>>
    /\ UNCHANGED <<conversation_messages, chat_history, loop_index,
                   is_complete, iteration, output, agent_name, res_val,
                   should_terminate, error>>

\* lines 177-182: the body of the async for, with describe_next_action
\* returning a status text
EmitStatus(s) ==
    /\ pc[s] = "consume"
    /\ messages' = [messages EXCEPT ![s] = Append(@, history[s][Len(history[s])])]
    /\ events' = [events EXCEPT ![s] = Append(@, StatusEvent(Len(messages[s]) + 1))]
    /\ pc' = [pc EXCEPT ![s] = "loop_next"]
    /\ UNCHANGED <<now, user_id, session_id>>
    /\ UNCHANGED <<conversation_messages, chat_history, history, loop_index,
                   is_complete, iteration, output, agent_name, res_val,
                   should_terminate, error>>

\* the loop not looking at is_complete after a pass
LoopNextNoBreak(s) ==
    /\ pc[s] = "loop_next"
    /\ loop_index' = [loop_index EXCEPT ![s] = @ + 1]
    /\ pc' = [pc EXCEPT ![s] =
           IF loop_index[s] + 1 >= maximum_iterations
           THEN "result" ELSE "select"]
    /\ UNCHANGED <<now, user_id, session_id>>
    /\ UNCHANGED <<conversation_messages, chat_history, history,
                   is_complete, iteration, output, agent_name, res_val,
                   should_terminate, messages, events, error>>

\* the loop making one pass more than maximum_iterations
LoopNextOneMore(s) ==
    /\ pc[s] = "loop_next"
    /\ loop_index' = [loop_index EXCEPT ![s] = @ + 1]
    /\ pc' = [pc EXCEPT ![s] =
           IF is_complete[s] \/ loop_index[s] + 1 > maximum_iterations
           THEN "result" ELSE "select"]
    /\ UNCHANGED <<now, user_id, session_id>>
    /\ UNCHANGED <<conversation_messages, chat_history, history,
                   is_complete, iteration, output, agent_name, res_val,
                   should_terminate, messages, events, error>>

\* invoke(): if self.is_complete: break, else the next pass of
\* for _ in range(maximum_iterations)
LoopNext(s) ==
    /\ pc[s] = "loop_next"
    /\ loop_index' = [loop_index EXCEPT ![s] = @ + 1]
    /\ pc' = [pc EXCEPT ![s] =
           IF is_complete[s] \/ loop_index[s] + 1 >= maximum_iterations
           THEN "result" ELSE "select"]
    /\ UNCHANGED <<now, user_id, session_id>>
    /\ UNCHANGED <<conversation_messages, chat_history, history,
                   is_complete, iteration, output, agent_name, res_val,
                   should_terminate, messages, events, error>>

\* line 184 reversing the chat's own list in place
EmitResultReversingHistory(s) ==
    /\ pc[s] = "result"
    /\ history' = [history EXCEPT ![s] = Reverse(@)]
    /\ IF WriterReplies(history[s]) = <<>>
       THEN /\ pc' = [pc EXCEPT ![s] = "failed"]
            /\ error' = [error EXCEPT ![s] = "IndexError"]
            /\ events' = events
       ELSE /\ pc' = [pc EXCEPT ![s] = "done"]
            /\ events' = [events EXCEPT ![s] =
                   Append(@, ResultEvent(LastWriterReply(history[s])))]
            /\ error' = error
    /\ UNCHANGED <<now, user_id, session_id>>
    /\ UNCHANGED <<conversation_messages, chat_history, loop_index,
                   is_complete, iteration, output, agent_name, res_val,
                   should_terminate, messages>>

\* the reply looked for among the turns of this run only
EmitResultFromRunOnly(s) ==
    /\ pc[s] = "result"
    /\ LET run == SubSeq(history[s], Len(chat_history[s]) + 1, Len(history[s])) IN
       IF WriterReplies(run) = <<>>
       THEN /\ pc' = [pc EXCEPT ![s] = "failed"]
            /\ error' = [error EXCEPT ![s] = "IndexError"]
            /\ events' = events
       ELSE /\ pc' = [pc EXCEPT ![s] = "done"]
            /\ events' = [events EXCEPT ![s] =
                   Append(@, ResultEvent(LastWriterReply(run)))]
            /\ error' = error
    /\ UNCHANGED <<now, user_id, session_id>>
    /\ UNCHANGED <<conversation_messages, chat_history, history, loop_index,
                   is_complete, iteration, output, agent_name, res_val,
                   should_terminate, messages>>

\* the last turn overall standing in for a missing Writer turn
EmitResultSubstitute(s) ==
    /\ pc[s] = "result"
    /\ history[s] # <<>>
    /\ pc' = [pc EXCEPT ![s] = "done"]
    /\ events' = [events EXCEPT ![s] =
           Append(@, ResultEvent(IF WriterReplies(history[s]) = <<>>
                                 THEN history[s][Len(history[s])]
                                 ELSE LastWriterReply(history[s])))]
    /\ UNCHANGED <<now, user_id, session_id>>
    /\ UNCHANGED <<conversation_messages, chat_history, history, loop_index,
                   is_complete, iteration, output, agent_name, res_val,
                   should_terminate, messages, error>>

\* lines 184-190
EmitResult(s) ==
    /\ pc[s] = "result"
    /\ IF WriterReplies(history[s]) = <<>>
       THEN /\ pc' = [pc EXCEPT ![s] = "failed"]
            /\ error' = [error EXCEPT ![s] = "IndexError"]
            /\ events' = events
       ELSE /\ pc' = [pc EXCEPT ![s] = "done"]
            /\ events' = [events EXCEPT ![s] =
                   Append(@, ResultEvent(LastWriterReply(history[s])))]
            /\ error' = error
    /\ UNCHANGED <<now, user_id, session_id>>
    /\ UNCHANGED <<conversation_messages, chat_history, history, loop_index,
                   is_complete, iteration, output, agent_name, res_val,
                   should_terminate, messages>>

\* the failure of a model call caught and logged, the run going on to its
\* result
UpstreamFailureSwallowed(s) ==
    /\ pc[s] \in {"select", "produce", "extract", "consume"}
    /\ messages' = [messages EXCEPT ![s] =
           IF pc[s] = "consume" THEN Append(@, history[s][Len(history[s])]) ELSE @]
    /\ error' = [error EXCEPT ![s] = "UpstreamFailure"]
    /\ pc' = [pc EXCEPT ![s] = "result"]
    /\ UNCHANGED <<now, user_id, session_id>>
    /\ UNCHANGED <<conversation_messages, chat_history, history, loop_index,
                   is_complete, iteration, output, agent_name, res_val,
                   should_terminate, events>>

\* an awaited model call (selection, production, score extraction, status
\* summarization) raises instead of returning
UpstreamFailure(s) ==
    /\ pc[s] \in {"select", "produce", "extract", "consume"}
    /\ messages' = [messages EXCEPT ![s] =
           IF pc[s] = "consume" THEN Append(@, history[s][Len(history[s])]) ELSE @]
    /\ error' = [error EXCEPT ![s] = "UpstreamFailure"]
    /\ pc' = [pc EXCEPT ![s] = "failed"]
    /\ UNCHANGED <<now, user_id, session_id>>
    /\ UNCHANGED <<conversation_messages, chat_history, history, loop_index,
                   is_complete, iteration, output, agent_name, res_val,
                   should_terminate, events>>

\* time passes between two steps
Tick ==
    /\ now < MaxTick
    /\ now' = now + 1
    /\ UNCHANGED <<pc, conversation_messages, chat_history, history,
                   loop_index, is_complete, iteration, output, agent_name,
                   res_val, should_terminate, messages, events, error,
                   user_id, session_id>>

\* one step of session s, its inputs drawn from the given sets
StepWith(s, users, convs, selections, extractions) ==
    \/ \E user \in users, msgs \in convs : process_conversation(s, user, msgs)
    \/ \E out \in selections : SelectionReturns(s, out)
    \/ ParseSelection(s)
    \/ ResolveAgent(s)
    \/ ProduceTurn(s)
    \/ ShouldTerminate(s)
    \/ \E r \in extractions : ExtractionReturns(s, r)
    \/ EvaluateScore(s)
    \/ ReturnShouldTerminate(s)
    \/ EmitStatus(s)
    \/ LoopNext(s)
    \/ EmitResult(s)
    \/ UpstreamFailure(s)

\* one call of process_conversation
Next == StepWith("s1", {"u1"}, Conversations, SelectorOutputs, ExtractionOutputs)

Spec == Init /\ [][Next]_vars

\* The same run on fewer inputs: at most one seeded entry, and one
\* extraction output of each outcome (below the bar, at the bar, no number).
LiveConversations == { c \in Conversations : Len(c) <= 1 }
LiveExtractionOutputs == { <<"7">>, <<"8">>, <<"N", "o", "n", "e">> }

LiveNext == StepWith("s1", {"u1"}, LiveConversations, SelectorOutputs, LiveExtractionOutputs)

\* every awaited call returns or raises, and the caller keeps consuming
LiveSpec == Init /\ [][LiveNext]_vars /\ WF_vars(LiveNext)

\* The selector of the reference scenario: Writer first, then Critic and
\* Writer in turn.
AlternatingSelection(s) ==
    IF history[s] # <<>> /\ history[s][Len(history[s])].name = WriterName
    THEN { [is_none |-> FALSE, value |-> <<CriticName>>] }
    ELSE { [is_none |-> FALSE, value |-> <<WriterName>>] }

\* Concurrent calls of process_conversation on one DebateOrchestrator, by
\* the same or by different callers, while the clock advances; each run
\* on an empty conversation with the alternating selector.
ConcExtractionOutputs == { <<"7">>, <<"9">>, <<"N", "o", "n", "e">> }

ConcNext ==
    \/ \E s \in Sessions :
           StepWith(s, Users, {<<>>}, AlternatingSelection(s), ConcExtractionOutputs)
    \/ Tick

ConcSpec == Init /\ [][ConcNext]_vars

\* The reference scenario: empty conversation, alternating selector, the
\* critic's scores among 5, 6, 7, 7.9, 8 and 9.
ScenarioExtractionOutputs ==
    { <<"5">>, <<"6">>, <<"7">>, <<"7", ".", "9">>, <<"8">>, <<"9">> }

ScenarioNext ==
    StepWith("s1", {"u1"}, {<<>>}, AlternatingSelection("s1"), ScenarioExtractionOutputs)

ScenarioSpec == Init /\ [][ScenarioNext]_vars

(* ======================= properties of one run ========================= *)
Finished(s) == pc[s] \in {"done", "failed"}

\* the agent turns appended to History during the run
TurnsAppended(s) == Len(history[s]) - Len(chat_history[s])

IsStatus(e) == e.kind = "status"
IsJson(e) == e.kind = "json"
StatusCount(s) == Len(SelectSeq(events[s], IsStatus))
JsonCount(s) == Len(SelectSeq(events[s], IsJson))

NoWriterTurn(h) == \A k \in 1..Len(h) : h[k].name # WriterName

\* C1: every started run of process_conversation reaches its end (result
\* emitted or error raised) whatever the critic scores are, and it never
\* appends more than maximum_iterations agent turns to History.
C1_RunTerminatesWithinCap ==
    /\ [](\A s \in Sessions : TurnsAppended(s) <= maximum_iterations)
    /\ (pc["s1"] # "idle") ~> Finished("s1")

\* a run that ended on the cap alone: six turns, the score gate never met
C1_Witness ==
    \E s \in Sessions :
        /\ pc[s] = "done"
        /\ ~is_complete[s]
        /\ TurnsAppended(s) = maximum_iterations
        /\ iteration[s] >= 1

\* C2: the terminal result is the most recent Writer turn of History: it
\* is a Writer turn of History and no Writer turn stands after it, also
\* when the last turn overall is a critique.
C2_ResultIsLatestWriterTurn ==
    \A s \in Sessions :
        pc[s] = "done" =>
            LET t == events[s][Len(events[s])].turn IN
            /\ events[s][Len(events[s])].kind = "json"
            /\ t.name = WriterName
            /\ \E k \in 1..Len(history[s]) :
                   /\ history[s][k] = t
                   /\ \A j \in (k + 1)..Len(history[s]) :
                          history[s][j].name # WriterName

\* a finished run with several Writer turns that ended on a critique
C2_Witness ==
    \E s \in Sessions :
        /\ pc[s] = "done"
        /\ history[s][Len(history[s])].name = CriticName
        /\ Len(WriterReplies(history[s])) >= 2
        /\ events[s][Len(events[s])].turn = LastWriterReply(history[s])

\* C3: whatever the selector model returns, the name handed on by the
\* Turn-Selector is a roster name, the default agent standing in for an
\* empty or unrecognized output, and no selection-parse failure is raised.
C3_SelectorReturnsRosterName ==
    \A s \in Sessions :
        /\ pc[s] = "resolve" =>
               /\ agent_name[s] \in RosterNames
               /\ (output[s].is_none \/ output[s].value[1] \notin RosterNames)
                      => agent_name[s] = default_agent
        /\ error[s] # "SelectionParseFailure"

\* C4: a run that ends with no Writer turn in History ends in an error
\* raised to the caller and emits no JSON result event.
C4_NoWriterTurnIsFatal ==
    \A s \in Sessions :
        /\ (Finished(s) /\ NoWriterTurn(history[s])) =>
               /\ pc[s] = "failed"
               /\ error[s] # "none"
               /\ JsonCount(s) = 0
        /\ error[s] = "IndexError" =>
               /\ NoWriterTurn(history[s])
               /\ pc[s] = "failed"

\* the debate loop ended, only the Critic spoke, and the error was raised
C4_Witness ==
    \E s \in Sessions :
        /\ pc[s] = "failed"
        /\ error[s] = "IndexError"
        /\ TurnsAppended(s) >= 1
        /\ JsonCount(s) = 0

\* C5 as stated: the evaluator's counter reaching maximum_iterations
\* makes the evaluator answer stop, whatever the score.
C5_CounterForcesStop ==
    \A s \in Sessions :
        (pc[s] = "return" /\ iteration[s] >= maximum_iterations)
            => should_terminate[s]

\* C5 amended: the loop has ended once maximum_iterations passes are made,
\* with the termination flag still false when no score passed; the
\* evaluator's counter counts the Critic turns evaluated, never exceeds the
\* passes made, and the evaluator answers stop only for a parsed score.
C5_PassCountEndsLoop ==
    \A s \in Sessions :
        /\ loop_index[s] >= maximum_iterations =>
               pc[s] \in {"result", "done", "failed"}
        /\ pc[s] = "return" =>
               (should_terminate[s] => ParseFloat(res_val[s]).ok)
        /\ iteration[s] <= TurnsAppended(s)
        /\ iteration[s] <= maximum_iterations

\* six Critic turns were evaluated, none stopped the debate, the loop ended
C5_Witness ==
    \E s \in Sessions :
        /\ pc[s] = "done"
        /\ iteration[s] = maximum_iterations
        /\ loop_index[s] = maximum_iterations
        /\ ~is_complete[s]

\* the value of a parsed score is at least the passing score
AtLeastPassing(p) ==
    \/ p.kind = "inf" /\ ~p.neg
    \/ p.kind = "finite" /\ ~p.neg /\ p.num >= PassingScore * p.den

C7_UnparsableScoreContinues ==
    [][\A s \in Sessions :
          /\ (pc[s] = "gate" /\ ~ParseFloat(res_val[s]).ok) =>
                 /\ pc'[s] = "return"
                 /\ ~should_terminate'[s]
                 /\ error'[s] = "none"
          /\ (pc[s] = "return" /\ ~ParseFloat(res_val[s]).ok) =>
                 /\ pc'[s] = "consume"
                 /\ ~is_complete'[s]
                 /\ error'[s] = "none"
          /\ (pc[s] = "loop_next" /\ ~is_complete[s]
                 /\ loop_index[s] + 1 < maximum_iterations) =>
                 pc'[s] = "select"]_vars

\* the evaluator has answered not-stop for a critique without a score
C7_Witness ==
    \E s \in Sessions :
        /\ pc[s] = "return"
        /\ res_val[s] = <<"n", "o", " ", "s", "c", "o", "r", "e">>
        /\ ~should_terminate[s]
        /\ error[s] = "none"

\* C8: a run that succeeds has emitted exactly one JSON result event, as
\* its last event, after status events only; a run that fails has emitted
\* none, and no JSON event is emitted before the end of a run.
C8_OneResultLastOnSuccess ==
    \A s \in Sessions :
        /\ pc[s] = "done" =>
               /\ error[s] = "none"
               /\ JsonCount(s) = 1
               /\ events[s][Len(events[s])].kind = "json"
               /\ \A k \in 1..(Len(events[s]) - 1) : events[s][k].kind = "status"
        /\ pc[s] # "done" => JsonCount(s) = 0
        /\ pc[s] = "failed" => error[s] # "none"

\* a successful run: statuses, then the result
C8_Witness ==
    \E s \in Sessions :
        /\ pc[s] = "done"
        /\ Len(events[s]) >= 3
        /\ JsonCount(s) = 1

\* C9 as stated: the status strings before the terminal event are as many
\* as the turns completed in the run.
C9_OneStatusPerTurn ==
    \A s \in Sessions : pc[s] = "done" => StatusCount(s) = TurnsAppended(s)

\* C9 amended: one status is emitted before the first turn and one after
\* each completed turn, so a run that emits its terminal event has emitted
\* one status more than it has turns; the k-th status follows turn k - 1.
C9_OneStatusPerTurnPlusFirst ==
    \A s \in Sessions :
        /\ pc[s] = "done" => StatusCount(s) = TurnsAppended(s) + 1
        /\ pc[s] \in {"select", "parse", "resolve", "produce", "loop_next", "result"}
               => StatusCount(s) = TurnsAppended(s) + 1
        /\ pc[s] \in {"should_terminate", "extract", "gate", "return", "consume"}
               => StatusCount(s) = TurnsAppended(s)
        /\ pc[s] = "failed" => StatusCount(s) \in {TurnsAppended(s), TurnsAppended(s) + 1}
        /\ \A k \in 1..StatusCount(s) :
               events[s][k].kind = "status" /\ events[s][k].n = k - 1

\* a finished run of two turns or more with its statuses and its result
C9_Witness ==
    \E s \in Sessions :
        /\ pc[s] = "done"
        /\ TurnsAppended(s) >= 2
        /\ StatusCount(s) = TurnsAppended(s) + 1

\* C10: after loop_index completed passes History is the seeded history
\* followed by exactly loop_index turns; within a pass the one new turn is
\* there from production on, and no other step adds or removes a turn.
C10_OneTurnPerIteration ==
    \A s \in Sessions :
        /\ pc[s] \in {"select", "parse", "resolve", "produce", "result", "done"}
               => Len(history[s]) = Len(chat_history[s]) + loop_index[s]
        /\ pc[s] \in {"should_terminate", "extract", "gate", "return", "consume", "loop_next"}
               => Len(history[s]) = Len(chat_history[s]) + loop_index[s] + 1
        /\ pc[s] = "failed"
               => Len(history[s]) - Len(chat_history[s]) \in {loop_index[s], loop_index[s] + 1}
        /\ SubSeq(history[s], 1, Len(chat_history[s])) = chat_history[s]

\* three passes completed on a seeded history
C10_Witness ==
    \E s \in Sessions :
        /\ pc[s] = "select"
        /\ loop_index[s] = 3
        /\ Len(chat_history[s]) >= 1
        /\ Len(history[s]) = Len(chat_history[s]) + 3

\* a run in progress
InProgress(s) == pc[s] \notin {"idle", "done", "failed"}

\* C11: two runs of process_conversation that are in progress at the same
\* time carry different session ids, also when one caller started both.
C11_SessionIdsUnique ==
    \A s, t \in Sessions :
        (s # t /\ InProgress(s) /\ InProgress(t))
            => session_id[s] # session_id[t]

\* the positions of msgs whose role is user or assistant
KeptPositions(msgs) ==
    {k \in 1..Len(msgs) : msgs[k].role = "user" \/ msgs[k].role = "assistant"}

\* C12: the seeded History holds exactly the entries of the input whose
\* role is user or assistant, each once and in their input order, and no
\* entry of any other role.
C12_SeedIsFilteredSubsequence ==
    \A s \in Sessions :
        pc[s] # "idle" =>
            LET msgs == conversation_messages[s]
                seed == SubSeq(history[s], 1, Len(chat_history[s]))
            IN  /\ seed = chat_history[s]
                /\ Len(seed) = Cardinality(KeptPositions(msgs))
                /\ \A i \in 1..Len(seed) : seed[i].role \in {"user", "assistant"}
                /\ \A k \in KeptPositions(msgs) :
                       seed[Cardinality({j \in KeptPositions(msgs) : j <= k})] = msgs[k]

\* a run seeded from a conversation that holds a system entry and a kept one
C12_Witness ==
    \E s \in Sessions :
        /\ pc[s] # "idle"
        /\ \E k \in 1..Len(conversation_messages[s]) :
               conversation_messages[s][k].role = "system"
        /\ Len(chat_history[s]) >= 1
        /\ Len(history[s]) > Len(chat_history[s])

\* C13: a model call that raises ends the run at once with the error at
\* the caller: the step that raises appends no turn and emits no event,
\* the failed run takes no further step, and it has emitted no JSON event.
C13_UpstreamFailureEndsRun ==
    /\ [](\A s \in Sessions :
             error[s] = "UpstreamFailure" => (pc[s] = "failed" /\ JsonCount(s) = 0))
    /\ [][\A s \in Sessions :
             /\ (error[s] = "none" /\ error'[s] = "UpstreamFailure") =>
                    /\ pc[s] \in {"select", "produce", "extract", "consume"}
                    /\ history'[s] = history[s]
                    /\ events'[s] = events[s]
             /\ pc[s] = "failed" =>
                    /\ pc'[s] = "failed"
                    /\ history'[s] = history[s]
                    /\ events'[s] = events[s]
                    /\ error'[s] = error[s]]_vars

\* a run ended by a failing model call after a turn was appended
C13_Witness ==
    \E s \in Sessions :
        /\ pc[s] = "failed"
        /\ error[s] = "UpstreamFailure"
        /\ TurnsAppended(s) >= 1
        /\ JsonCount(s) = 0

\* the scores of the scenario that reach the passing score, as integers
ScenarioPassing == { <<"8">>, <<"9">> }

\* C14: in the reference scenario the first critique scored 8 or more
\* sets the termination flag, no turn is appended once the flag is set,
\* the turns alternate Writer and Critic, and the result is the Writer turn
\* just before the last critique; a stop at the third critique (scores
\* such as 5, 6, 9) gives six appended turns and the third Writer turn.
C14_StopsAfterFirstPassingCritique ==
    /\ [](\A s \in Sessions :
             /\ \A k \in 1..Len(history[s]) :
                    history[s][k].name = (IF k % 2 = 1 THEN WriterName ELSE CriticName)
             /\ is_complete[s] =>
                    /\ pc[s] \in {"consume", "loop_next", "result", "done", "failed"}
                    /\ history[s][Len(history[s])].name = CriticName
                    /\ Len(history[s]) = 2 * iteration[s]
             /\ pc[s] = "done" =>
                    /\ Len(history[s]) = 2 * iteration[s]
                    /\ events[s][Len(events[s])].turn = history[s][Len(history[s]) - 1]
                    /\ events[s][Len(events[s])].turn.name = WriterName
                    /\ (is_complete[s] \/ Len(history[s]) = maximum_iterations)
             /\ (pc[s] = "done" /\ iteration[s] = 3) =>
                    /\ Len(history[s]) = 6
                    /\ events[s][Len(events[s])].turn.content = <<"turn", 5>>)
    /\ [][\A s \in Sessions :
             /\ pc[s] = "return" =>
                    (is_complete'[s] <=> res_val[s] \in ScenarioPassing)
             /\ is_complete[s] => history'[s] = history[s]]_vars

\* the run stopped by the third critique: six turns, the third draft
C14_Witness ==
    \E s \in Sessions :
        /\ pc[s] = "done"
        /\ is_complete[s]
        /\ iteration[s] = 3
        /\ TurnsAppended(s) = 6
        /\ events[s][Len(events[s])].turn = history[s][5]

\* the turns of the run, after the seeded ones
RunTurns(s) == SubSeq(history[s], Len(chat_history[s]) + 1, Len(history[s]))

IsCritic(r) == r.name = CriticName

\* the Critic turns appended in the run
CriticTurns(s) == Len(SelectSeq(RunTurns(s), IsCritic))

\* C15: the counter goes up by exactly 1 when an evaluation starts, before
\* the score is asked for or judged, and changes at no other step of the
\* run: while and after a score is evaluated, whatever the outcome, it
\* equals the number of evaluations started.
C15_CounterIncrementsFirst ==
    /\ [](\A s \in Sessions :
             /\ pc[s] \in {"extract", "gate", "return"} =>
                    (iteration[s] >= 1 /\ iteration[s] = CriticTurns(s))
             /\ pc[s] \in {"consume", "loop_next", "select", "parse", "resolve",
                           "produce", "result", "done"} =>
                    iteration[s] = CriticTurns(s))
    /\ [][\A s \in Sessions :
             /\ (pc[s] = "should_terminate" /\ pc'[s] = "extract") =>
                    iteration'[s] = iteration[s] + 1
             /\ pc[s] \in {"extract", "gate", "return"} =>
                    iteration'[s] = iteration[s]
             /\ (iteration'[s] # iteration[s] /\ pc[s] # "idle") =>
                    (pc[s] = "should_terminate" /\ iteration'[s] = iteration[s] + 1)]_vars

\* the second evaluation has been counted and its score is not yet judged
C15_Witness ==
    \E s \in Sessions :
        /\ pc[s] = "gate"
        /\ iteration[s] = 2
        /\ ~ParseFloat(res_val[s]).ok

\* the step that may follow each position of a run
Successors(p) ==
    CASE p = "idle" -> {"select", "result"}
      [] p = "select" -> {"parse", "failed"}
      [] p = "parse" -> {"resolve"}
      [] p = "resolve" -> {"produce", "failed"}
      [] p = "produce" -> {"should_terminate", "failed"}
      [] p = "should_terminate" -> {"extract", "consume"}
      [] p = "extract" -> {"gate", "failed"}
      [] p = "gate" -> {"return"}
      [] p = "return" -> {"consume"}
      [] p = "consume" -> {"loop_next", "failed"}
      [] p = "loop_next" -> {"select", "result"}
      [] p = "result" -> {"done", "failed"}
      [] OTHER -> {}

\* C16: a session goes select, produce (append), evaluate, report, in that
\* order and one step at a time; History grows only by the one turn of the
\* production step, the turns stand in the order of their production, and
\* every History of a run is a prefix of each later one.
C16_SequentialAppendOnly ==
    /\ [](\A s \in Sessions :
             \A k \in 1..TurnsAppended(s) : RunTurns(s)[k].content = <<"turn", k>>)
    /\ [][\A s \in Sessions :
             /\ pc'[s] # pc[s] => pc'[s] \in Successors(pc[s])
             /\ pc[s] # "idle" =>
                    /\ Len(history'[s]) >= Len(history[s])
                    /\ SubSeq(history'[s], 1, Len(history[s])) = history[s]
                    /\ history'[s] # history[s] =>
                           /\ pc[s] = "produce"
                           /\ Len(history'[s]) = Len(history[s]) + 1]_vars

\* a finished run over a seeded History with several turns in their order
C16_Witness ==
    \E s \in Sessions :
        /\ pc[s] = "done"
        /\ Len(chat_history[s]) >= 1
        /\ TurnsAppended(s) >= 3
        /\ RunTurns(s)[3].content = <<"turn", 3>>

\* C17: every run starts with its counter at 0, and a step of one session
\* leaves the counter and the History of every other session as they are,
\* in every interleaving of runs on one orchestrator.
C17_CounterAndHistoryPerSession ==
    /\ [](\A s \in Sessions : InProgress(s) => iteration[s] <= CriticTurns(s))
    /\ [][\A s \in Sessions :
             /\ (pc[s] = "idle" /\ pc'[s] # "idle") => iteration'[s] = 0
             /\ \A t \in Sessions \ {s} :
                    pc'[t] # pc[t] =>
                        /\ iteration'[s] = iteration[s]
                        /\ history'[s] = history[s]]_vars

\* two runs in progress at once whose counters differ
C17_Witness ==
    \E s, t \in Sessions :
        /\ s # t
        /\ InProgress(s) /\ InProgress(t)
        /\ iteration[s] = 2
        /\ iteration[t] = 0
        /\ Len(history[t]) >= 1

\* C18: the score is extracted and the counter advanced only for a Critic
\* turn; the flag is never set after a Writer turn, and a loop that ends
\* after a Writer turn ends because maximum_iterations passes are made.
C18_OnlyCriticTurnsAreEvaluated ==
    /\ [](\A s \in Sessions :
             /\ pc[s] \in {"extract", "gate", "return"} =>
                    history[s][Len(history[s])].name = CriticName
             /\ (pc[s] \in {"consume", "loop_next"}
                    /\ history[s][Len(history[s])].name = WriterName) =>
                    ~is_complete[s]
             /\ iteration[s] <= CriticTurns(s))
    /\ [][\A s \in Sessions :
             /\ (pc[s] = "should_terminate"
                    /\ history[s][Len(history[s])].name = WriterName) =>
                    /\ pc'[s] = "consume"
                    /\ iteration'[s] = iteration[s]
             /\ (pc[s] = "loop_next" /\ pc'[s] = "result"
                    /\ history[s][Len(history[s])].name = WriterName) =>
                    loop_index'[s] = maximum_iterations]_vars

\* a Writer turn has followed evaluated critiques and the loop goes on
C18_Witness ==
    \E s \in Sessions :
        /\ pc[s] = "loop_next"
        /\ history[s][Len(history[s])].name = WriterName
        /\ iteration[s] >= 1
        /\ ~is_complete[s]
        /\ loop_index[s] + 1 < maximum_iterations

\* the positions of History that hold an entry named Writer
WriterPositions(h) == {k \in 1..Len(h) : h[k].name = WriterName}

\* C19: the result is the last entry named Writer of the whole History,
\* seeded entries included: a run that appended no Writer turn emits the
\* latest seeded Writer entry, and the missing-producer error is raised
\* only when History holds no entry named Writer at all.
C19_SeededWriterEntriesCount ==
    \A s \in Sessions :
        /\ pc[s] = "done" =>
               /\ WriterPositions(history[s]) # {}
               /\ \E k \in WriterPositions(history[s]) :
                      /\ \A j \in WriterPositions(history[s]) : j <= k
                      /\ events[s][Len(events[s])].turn = history[s][k]
        /\ (pc[s] = "done" /\ WriterPositions(RunTurns(s)) = {}) =>
               /\ events[s][Len(events[s])].turn.role = "assistant"
               /\ events[s][Len(events[s])].turn \in Range(conversation_messages[s])
        /\ error[s] = "IndexError" => WriterPositions(history[s]) = {}
        /\ (Finished(s) /\ error[s] \in {"none", "IndexError"}
               /\ WriterPositions(chat_history[s]) # {}) => pc[s] = "done"

\* only the Critic spoke in the run and a seeded Writer entry is the result
C19_Witness ==
    \E s \in Sessions :
        /\ pc[s] = "done"
        /\ TurnsAppended(s) >= 1
        /\ WriterPositions(RunTurns(s)) = {}
        /\ events[s][Len(events[s])].turn.content[1] = "in"

====
